---- MODULE Spec2Model ----
(***************************************************************************)
(* In-memory notes store of notes_backend (FastAPI).                       *)
(*                                                                         *)
(* The handlers of routes_notes.py are plain `def` functions, which        *)
(* FastAPI runs on worker threads; no lock guards _STORE or _NEXT_ID.      *)
(* Every handler is therefore modelled as the sequence of its reads and    *)
(* writes of the shared state, one action per step, run by a worker.       *)
(* Spec serves one request at a time (sequential execution); SpecConc      *)
(* lets the steps of two workers interleave.                               *)
(***************************************************************************)
EXTENDS Integers, Sequences, FiniteSets, TLC

\* ------------------------------------------------------------- bounds
\* Creates are accepted while _NEXT_ID <= MaxNotes.
MaxNotes == 2
\* The wall clock advances up to MaxClock.
MaxClock == 1
\* A concurrent execution is followed for MaxConcRequests requests.
MaxConcRequests == 3

\* Field(min_length=1, max_length=200) of NoteBase.title / NoteUpdate.title
MinTitleLen == 1
MaxTitleLen == 200

\* Worker threads of the server's thread pool.
Threads == {"w1", "w2"}
\* The worker that serves every request of a sequential execution.
SeqWorker == "w1"

\* A string of n characters (built by halving, to keep the recursion shallow).
RECURSIVE Rep(_)
Rep(n) ==
    IF n = 0 THEN ""
    ELSE IF n % 2 = 1 THEN "x" \o Rep(n - 1)
    ELSE LET half == Rep(n \div 2) IN half \o half

\* An optional payload field (NoteUpdate): <<>> is None, <<v>> a supplied v.
Opt(S) == {<<>>} \cup {<<v>> : v \in S}

\* Request inputs: the path parameter note_id and the payloads
\* <<title, content>> of POST and PUT (NoteCreate) and of PATCH (NoteUpdate).
\* Sequential executions: the ids create can allocate and one it never
\* does; titles at and beyond both length limits; every choice of fields.
SeqTitles == {"", "A", Rep(MaxTitleLen), Rep(MaxTitleLen + 1)}
SeqContents == {"", "1"}
SeqInputs ==
    [ids |-> 1..(MaxNotes + 1),
     creates |-> SeqTitles \X SeqContents,
     updates |-> Opt(SeqTitles) \X Opt(SeqContents),
     counted |-> FALSE,
     limit |-> 0]
\* Concurrent executions: requests that contend for the first note, each
\* writer with values of its own.
ConcInputs ==
    [ids |-> {1},
     creates |-> {<<"A", "1">>, <<"C", "3">>},
     updates |-> {<< <<"B">>, <<>> >>, << <<>>, <<"2">> >>},
     counted |-> TRUE,
     limit |-> MaxConcRequests]
\* One scripted execution: each request in turn, with its path parameter
\* and payload (title, content; an update leaves out what it does not send).
Scenario ==
    << [op |-> "create",  id |-> 0, title |-> <<"A">>,  content |-> <<"1">>],
       [op |-> "create",  id |-> 0, title |-> <<"B">>,  content |-> <<"2">>],
       [op |-> "list",    id |-> 0, title |-> <<>>,     content |-> <<>>],
       [op |-> "delete",  id |-> 1, title |-> <<>>,     content |-> <<>>],
       [op |-> "get",     id |-> 1, title |-> <<>>,     content |-> <<>>],
       [op |-> "update",  id |-> 2, title |-> <<"B2">>, content |-> <<>>],
       [op |-> "replace", id |-> 2, title |-> <<"C">>,  content |-> <<"3">>],
       [op |-> "delete",  id |-> 2, title |-> <<>>,     content |-> <<>>],
       [op |-> "list",    id |-> 0, title |-> <<>>,     content |-> <<>>] >>

VARIABLES
    _STORE,     \* the dict, as the sequence of its items in insertion order
    _NEXT_ID,   \* the id counter
    clock,      \* the system's UTC time
    pc,         \* per worker: the step its handler is at
    req,        \* per worker: the request it is serving (or served last)
    loc,        \* per worker: the handler's local variables
    ret,        \* per worker: the response to its request
    issued,     \* history: the ids returned by create, in order of return
    deleted,    \* history: the ids whose delete returned 204
    served      \* history: the requests counted against MaxConcRequests

vars == <<_STORE, _NEXT_ID, clock, pc, req, loc, ret, issued, deleted, served>>

\* --------------------------------------------------------- data model
\* models.Note
Note(id, title, content, created_at, updated_at) ==
    [id |-> id, title |-> title, content |-> content,
     created_at |-> created_at, updated_at |-> updated_at]

\* Field constraints of NoteBase.title
TitleOk(s) == Len(s) >= MinTitleLen /\ Len(s) <= MaxTitleLen

\* Mutant: title declared a plain str, without Field constraints.
NoteCreateValid_Unchecked(title, content) == TRUE

\* NoteCreate(NoteBase): title constrained, content any string
NoteCreateValid(title, content) == TitleOk(title)

\* Mutant: title declared Optional[str] = None, without Field constraints.
NoteUpdateValid_Unchecked(title, content) == TRUE

\* NoteUpdate: both optional, title constrained when supplied
NoteUpdateValid(title, content) ==
    title = <<>> \/ TitleOk(title[1])

\* ------------------------------------------------------ dict helpers
\* A dict is the sequence of its items [key, value] in insertion order.
Item(k, v) == [key |-> k, value |-> v]

Keys(store) == {store[i].key : i \in 1..Len(store)}

\* d.values()
Values(store) == [i \in 1..Len(store) |-> store[i].value]

\* `k in d`
HasKey(store, k) == k \in Keys(store)

\* d.get(k): <<>> for None, <<note>> otherwise
DictGet(store, k) ==
    IF HasKey(store, k)
    THEN <<store[CHOOSE i \in 1..Len(store) : store[i].key = k].value>>
    ELSE <<>>

\* Mutant: an overwritten key moved to the end (d.pop(k, None); d[k] = v).
DictSet_MovesToEnd(store, k, v) ==
    Append(SelectSeq(store, LAMBDA item : item.key # k), Item(k, v))

\* d[k] = v: an existing key keeps its place, a new key goes last
DictSet(store, k, v) ==
    IF HasKey(store, k)
    THEN [i \in 1..Len(store) |->
             IF store[i].key = k THEN Item(k, v) ELSE store[i]]
    ELSE Append(store, Item(k, v))

\* del d[k]
DictDel(store, k) == SelectSeq(store, LAMBDA item : item.key # k)

\* ------------------------------------------------------------- state
NoReq == [op |-> "none", id |-> 0, title |-> <<>>, content |-> <<>>]
NoLoc == [nid |-> 0, tmp |-> 0, now |-> 0, existing |-> <<>>]
NoRet == [status |-> 0, body |-> <<>>]

Request(op, id, title, content) ==
    [op |-> op, id |-> id, title |-> title, content |-> content]
Response(status, body) == [status |-> status, body |-> body]

Init ==
    /\ _STORE = <<>>
    /\ _NEXT_ID = 1
    /\ clock = 0
    /\ pc = [t \in Threads |-> "idle"]
    /\ req = [t \in Threads |-> NoReq]
    /\ loc = [t \in Threads |-> NoLoc]
    /\ ret = [t \in Threads |-> NoRet]
    /\ issued = <<>>
    /\ deleted = {}
    /\ served = 0

\* datetime.now(timezone.utc)
_now == clock

\* Time passes between two readings of the clock, or does not: the clock has
\* a finite resolution and, being the system's UTC time, does not step back.
Tick ==
    /\ clock < MaxClock
    /\ clock' = clock + 1
    /\ UNCHANGED <<_STORE, _NEXT_ID, pc, req, loc, ret, issued, deleted, served>>

\* A request arrives; a concurrent execution counts it.
Admit(in) ==
    IF in.counted
    THEN served < in.limit /\ served' = served + 1
    ELSE UNCHANGED served

\* A request reaches a handler: the worker starts at the handler's first step.
Dispatch(t, r, first) ==
    /\ pc[t] = "idle"
    /\ pc' = [pc EXCEPT ![t] = first]
    /\ req' = [req EXCEPT ![t] = r]
    /\ loc' = [loc EXCEPT ![t] = NoLoc]
    /\ ret' = [ret EXCEPT ![t] = NoRet]
    /\ UNCHANGED <<_STORE, _NEXT_ID, clock, issued, deleted>>

\* A request is answered without reaching a handler (422 from validation).
Reject(t, r, status) ==
    /\ pc[t] = "idle"
    /\ pc' = [pc EXCEPT ![t] = "done"]
    /\ req' = [req EXCEPT ![t] = r]
    /\ loc' = [loc EXCEPT ![t] = NoLoc]
    /\ ret' = [ret EXCEPT ![t] = Response(status, <<>>)]
    /\ UNCHANGED <<_STORE, _NEXT_ID, clock, issued, deleted>>

\* The handler returns (or raises HTTPException): its locals are gone and
\* the response is on its way.
Return(t, status, body) ==
    /\ pc' = [pc EXCEPT ![t] = "done"]
    /\ loc' = [loc EXCEPT ![t] = NoLoc]
    /\ ret' = [ret EXCEPT ![t] = Response(status, body)]
    /\ UNCHANGED <<clock, req, served>>

\* The response is sent: the worker is free for the next request.
Recycle(t) ==
    /\ pc[t] = "done"
    /\ pc' = [pc EXCEPT ![t] = "idle"]
    /\ req' = [req EXCEPT ![t] = NoReq]
    /\ ret' = [ret EXCEPT ![t] = NoRet]
    /\ UNCHANGED <<_STORE, _NEXT_ID, clock, loc, issued, deleted, served>>

\* ------------------------------------------------------------ create
\* POST /notes with payload: NoteCreate
PostNotes(t, in) ==
    /\ Admit(in)
    /\ \E p \in in.creates :
        LET r == Request("create", 0, <<p[1]>>, <<p[2]>>) IN
        IF NoteCreateValid(p[1], p[2])
        THEN _NEXT_ID <= MaxNotes /\ Dispatch(t, r, "alloc_read")
        ELSE Reject(t, r, 422)

\* Mutant: the id derived from the size of the store (nid = len(_STORE) + 1).
AllocRead_FromLen(t) ==
    /\ pc[t] = "alloc_read"
    /\ loc' = [loc EXCEPT ![t].nid = Len(_STORE) + 1]
    /\ pc' = [pc EXCEPT ![t] = "alloc_load"]
    /\ UNCHANGED <<_STORE, _NEXT_ID, clock, req, ret, issued, deleted, served>>

\* _allocate_id: nid = _NEXT_ID
AllocRead(t) ==
    /\ pc[t] = "alloc_read"
    /\ loc' = [loc EXCEPT ![t].nid = _NEXT_ID]
    /\ pc' = [pc EXCEPT ![t] = "alloc_load"]
    /\ UNCHANGED <<_STORE, _NEXT_ID, clock, req, ret, issued, deleted, served>>

\* _allocate_id: _NEXT_ID += 1, the load of the global
AllocLoad(t) ==
    /\ pc[t] = "alloc_load"
    /\ loc' = [loc EXCEPT ![t].tmp = _NEXT_ID]
    /\ pc' = [pc EXCEPT ![t] = "alloc_store"]
    /\ UNCHANGED <<_STORE, _NEXT_ID, clock, req, ret, issued, deleted, served>>

\* Mutant: the increment left out (_NEXT_ID = _NEXT_ID).
AllocStore_NoIncrement(t) ==
    /\ pc[t] = "alloc_store"
    /\ _NEXT_ID' = loc[t].tmp
    /\ loc' = [loc EXCEPT ![t].tmp = 0]
    /\ pc' = [pc EXCEPT ![t] = "create_now"]
    /\ UNCHANGED <<_STORE, clock, req, ret, issued, deleted, served>>

\* _allocate_id: _NEXT_ID += 1, the add and the store of the global
AllocStore(t) ==
    /\ pc[t] = "alloc_store"
    /\ _NEXT_ID' = loc[t].tmp + 1
    /\ loc' = [loc EXCEPT ![t].tmp = 0]
    /\ pc' = [pc EXCEPT ![t] = "create_now"]
    /\ UNCHANGED <<_STORE, clock, req, ret, issued, deleted, served>>

\* create_note: now = _now()
CreateNow(t) ==
    /\ pc[t] = "create_now"
    /\ loc' = [loc EXCEPT ![t].now = _now]
    /\ pc' = [pc EXCEPT ![t] = "create_store"]
    /\ UNCHANGED <<_STORE, _NEXT_ID, clock, req, ret, issued, deleted, served>>

\* Mutant: the clock read again for updated_at (updated_at=_now()).
CreatedNote_TwoReadings(t) ==
    Note(loc[t].nid, req[t].title[1], req[t].content[1], loc[t].now, _now)

\* create_note: the Note built from the payload and the locals
CreatedNote(t) ==
    Note(loc[t].nid, req[t].title[1], req[t].content[1], loc[t].now, loc[t].now)

\* Mutant: the note stored under the counter (_STORE[_NEXT_ID] = note).
CreateStore_KeyFromCounter(t) ==
    /\ pc[t] = "create_store"
    /\ _STORE' = DictSet(_STORE, _NEXT_ID, CreatedNote(t))
    /\ issued' = Append(issued, loc[t].nid)
    /\ Return(t, 201, <<CreatedNote(t)>>)
    /\ UNCHANGED <<_NEXT_ID, deleted>>

\* create_note: _STORE[nid] = note; return note
CreateStore(t) ==
    /\ pc[t] = "create_store"
    /\ _STORE' = DictSet(_STORE, loc[t].nid, CreatedNote(t))
    /\ issued' = Append(issued, loc[t].nid)
    /\ Return(t, 201, <<CreatedNote(t)>>)
    /\ UNCHANGED <<_NEXT_ID, deleted>>

create_note(t) ==
    \/ AllocRead(t)
    \/ AllocLoad(t)
    \/ AllocStore(t)
    \/ CreateNow(t)
    \/ CreateStore(t)

\* -------------------------------------------------------------- list
\* Mutant: the sort without reverse=True (oldest first).
RECURSIVE InsertDesc_Ascending(_, _)
InsertDesc_Ascending(sorted, n) ==
    IF sorted = <<>> THEN <<n>>
    ELSE IF Head(sorted).updated_at <= n.updated_at
         THEN <<Head(sorted)>> \o InsertDesc_Ascending(Tail(sorted), n)
         ELSE <<n>> \o sorted

\* sorted(values, key=updated_at, reverse=True): a stable sort, so notes
\* with equal keys keep the order they have in `values`.
RECURSIVE InsertDesc(_, _)
InsertDesc(sorted, n) ==
    IF sorted = <<>> THEN <<n>>
    ELSE IF Head(sorted).updated_at >= n.updated_at
         THEN <<Head(sorted)>> \o InsertDesc(Tail(sorted), n)
         ELSE <<n>> \o sorted

RECURSIVE SortedDesc(_)
SortedDesc(values) ==
    IF values = <<>> THEN <<>>
    ELSE InsertDesc(SortedDesc(SubSeq(values, 1, Len(values) - 1)),
                    values[Len(values)])

\* GET /notes
GetNotes(t, in) ==
    /\ Admit(in)
    /\ Dispatch(t, Request("list", 0, <<>>, <<>>), "list")

\* list_notes: return sorted(_STORE.values(), ...)
list_notes(t) ==
    /\ pc[t] = "list"
    /\ Return(t, 200, SortedDesc(Values(_STORE)))
    /\ UNCHANGED <<_STORE, _NEXT_ID, issued, deleted, served>>

\* --------------------------------------------------------------- get
\* GET /notes/{note_id}
GetNote(t, in) ==
    /\ Admit(in)
    /\ \E id \in in.ids : Dispatch(t, Request("get", id, <<>>, <<>>), "get")

\* Mutant: the note taken out of the dict (note = _STORE.pop(note_id, None)).
get_note_Pops(t) ==
    /\ pc[t] = "get"
    /\ LET note == DictGet(_STORE, req[t].id) IN
       IF note = <<>> THEN Return(t, 404, <<>>) ELSE Return(t, 200, note)
    /\ _STORE' = DictDel(_STORE, req[t].id)
    /\ UNCHANGED <<_NEXT_ID, issued, deleted, served>>

\* get_note: note = _STORE.get(note_id); 404 if not note; return note
get_note(t) ==
    /\ pc[t] = "get"
    /\ LET note == DictGet(_STORE, req[t].id) IN
       IF note = <<>> THEN Return(t, 404, <<>>) ELSE Return(t, 200, note)
    /\ UNCHANGED <<_STORE, _NEXT_ID, issued, deleted, served>>

\* ----------------------------------------------------------- replace
\* PUT /notes/{note_id} with payload: NoteCreate
PutNote(t, in) ==
    /\ Admit(in)
    /\ \E id \in in.ids, p \in in.creates :
        LET r == Request("replace", id, <<p[1]>>, <<p[2]>>) IN
        IF NoteCreateValid(p[1], p[2])
        THEN Dispatch(t, r, "replace_get")
        ELSE Reject(t, r, 422)

\* Mutant: an upsert, the note stored before the 404 is raised.
ReplaceGet_StoresFirst(t) ==
    /\ pc[t] = "replace_get"
    /\ LET existing == DictGet(_STORE, req[t].id) IN
       IF existing = <<>>
       THEN /\ _STORE' = DictSet(_STORE, req[t].id,
                           Note(req[t].id, req[t].title[1], req[t].content[1],
                                _now, _now))
            /\ Return(t, 404, <<>>)
       ELSE /\ loc' = [loc EXCEPT ![t].existing = existing]
            /\ pc' = [pc EXCEPT ![t] = "replace_now"]
            /\ UNCHANGED <<_STORE, clock, req, ret>>
    /\ UNCHANGED <<_NEXT_ID, issued, deleted, served>>

\* replace_note: existing = _STORE.get(note_id); 404 if not existing
ReplaceGet(t) ==
    /\ pc[t] = "replace_get"
    /\ LET existing == DictGet(_STORE, req[t].id) IN
       IF existing = <<>>
       THEN Return(t, 404, <<>>)
       ELSE /\ loc' = [loc EXCEPT ![t].existing = existing]
            /\ pc' = [pc EXCEPT ![t] = "replace_now"]
            /\ UNCHANGED <<clock, req, ret>>
    /\ UNCHANGED <<_STORE, _NEXT_ID, issued, deleted, served>>

\* replace_note: now = _now()
ReplaceNow(t) ==
    /\ pc[t] = "replace_now"
    /\ loc' = [loc EXCEPT ![t].now = _now]
    /\ pc' = [pc EXCEPT ![t] = "replace_store"]
    /\ UNCHANGED <<_STORE, _NEXT_ID, clock, req, ret, issued, deleted, served>>

\* Mutant: a fresh created_at (created_at=now).
ReplacedNote_NewCreatedAt(t) ==
    Note(req[t].id, req[t].title[1], req[t].content[1], loc[t].now, loc[t].now)

\* replace_note: updated = Note(...)
ReplacedNote(t) ==
    Note(req[t].id, req[t].title[1], req[t].content[1],
         loc[t].existing[1].created_at, loc[t].now)

\* replace_note: _STORE[note_id] = updated; return updated
ReplaceStore(t) ==
    /\ pc[t] = "replace_store"
    /\ _STORE' = DictSet(_STORE, req[t].id, ReplacedNote(t))
    /\ Return(t, 200, <<ReplacedNote(t)>>)
    /\ UNCHANGED <<_NEXT_ID, issued, deleted, served>>

replace_note(t) ==
    \/ ReplaceGet(t)
    \/ ReplaceNow(t)
    \/ ReplaceStore(t)

\* ------------------------------------------------------------ update
\* PATCH /notes/{note_id} with payload: NoteUpdate
PatchNote(t, in) ==
    /\ Admit(in)
    /\ \E id \in in.ids, p \in in.updates :
        LET r == Request("update", id, p[1], p[2]) IN
        IF NoteUpdateValid(p[1], p[2])
        THEN Dispatch(t, r, "update_get")
        ELSE Reject(t, r, 422)

\* update_note: existing = _STORE.get(note_id); 404 if not existing
UpdateGet(t) ==
    /\ pc[t] = "update_get"
    /\ LET existing == DictGet(_STORE, req[t].id) IN
       IF existing = <<>>
       THEN Return(t, 404, <<>>)
       ELSE /\ loc' = [loc EXCEPT ![t].existing = existing]
            /\ pc' = [pc EXCEPT ![t] = "update_now"]
            /\ UNCHANGED <<clock, req, ret>>
    /\ UNCHANGED <<_STORE, _NEXT_ID, issued, deleted, served>>

\* update_note: updated_at=_now(), evaluated while building the Note
UpdateNow(t) ==
    /\ pc[t] = "update_now"
    /\ loc' = [loc EXCEPT ![t].now = _now]
    /\ pc' = [pc EXCEPT ![t] = "update_store"]
    /\ UNCHANGED <<_STORE, _NEXT_ID, clock, req, ret, issued, deleted, served>>

\* Mutant: truthiness in place of the None test (payload.x or existing.x).
Merged_Truthy(supplied, prior) ==
    IF supplied # <<>> /\ supplied[1] # "" THEN supplied[1] ELSE prior

\* update_note: payload.x if payload.x is not None else existing.x
Merged(supplied, prior) == IF supplied # <<>> THEN supplied[1] ELSE prior

\* Mutant: updated_at carried over (updated_at=existing.updated_at).
UpdatedNote_KeepsStamp(t) ==
    LET existing == loc[t].existing[1] IN
    Note(existing.id,
         Merged(req[t].title, existing.title),
         Merged(req[t].content, existing.content),
         existing.created_at, existing.updated_at)

\* Mutant: the two timestamps passed in each other's place.
UpdatedNote_StampsSwapped(t) ==
    LET existing == loc[t].existing[1] IN
    Note(existing.id,
         Merged(req[t].title, existing.title),
         Merged(req[t].content, existing.content),
         loc[t].now, existing.created_at)

\* update_note: updated = Note(...)
UpdatedNote(t) ==
    LET existing == loc[t].existing[1] IN
    Note(existing.id,
         Merged(req[t].title, existing.title),
         Merged(req[t].content, existing.content),
         existing.created_at, loc[t].now)

\* update_note: _STORE[note_id] = updated; return updated
UpdateStore(t) ==
    /\ pc[t] = "update_store"
    /\ _STORE' = DictSet(_STORE, req[t].id, UpdatedNote(t))
    /\ Return(t, 200, <<UpdatedNote(t)>>)
    /\ UNCHANGED <<_NEXT_ID, issued, deleted, served>>

update_note(t) ==
    \/ UpdateGet(t)
    \/ UpdateNow(t)
    \/ UpdateStore(t)

\* ------------------------------------------------------------ delete
\* DELETE /notes/{note_id}
DeleteNote(t, in) ==
    /\ Admit(in)
    /\ \E id \in in.ids :
          Dispatch(t, Request("delete", id, <<>>, <<>>), "delete_check")

\* Mutant: the check made against the counter (note_id >= _NEXT_ID).
DeleteCheck_ByCounter(t) ==
    /\ pc[t] = "delete_check"
    /\ IF req[t].id >= _NEXT_ID
       THEN Return(t, 404, <<>>)
       ELSE /\ pc' = [pc EXCEPT ![t] = "delete_del"]
            /\ UNCHANGED <<clock, req, loc, ret>>
    /\ UNCHANGED <<_STORE, _NEXT_ID, issued, deleted, served>>

\* delete_note: 404 if note_id not in _STORE
DeleteCheck(t) ==
    /\ pc[t] = "delete_check"
    /\ IF ~HasKey(_STORE, req[t].id)
       THEN Return(t, 404, <<>>)
       ELSE /\ pc' = [pc EXCEPT ![t] = "delete_del"]
            /\ UNCHANGED <<clock, req, loc, ret>>
    /\ UNCHANGED <<_STORE, _NEXT_ID, issued, deleted, served>>

\* Mutant: the id of the newest note released for reuse when it is deleted
\* (_NEXT_ID -= 1 if note_id == _NEXT_ID - 1).
DeleteDel_ReleasesId(t) ==
    /\ pc[t] = "delete_del"
    /\ IF HasKey(_STORE, req[t].id)
       THEN /\ _STORE' = DictDel(_STORE, req[t].id)
            /\ deleted' = deleted \cup {req[t].id}
            /\ _NEXT_ID' = IF req[t].id = _NEXT_ID - 1
                           THEN _NEXT_ID - 1 ELSE _NEXT_ID
            /\ Return(t, 204, <<>>)
       ELSE /\ Return(t, 500, <<>>)
            /\ UNCHANGED <<_STORE, _NEXT_ID, deleted>>
    /\ UNCHANGED issued

\* delete_note: del _STORE[note_id]; return None.  A key that another
\* worker removed since the check raises KeyError (500).
DeleteDel(t) ==
    /\ pc[t] = "delete_del"
    /\ IF HasKey(_STORE, req[t].id)
       THEN /\ _STORE' = DictDel(_STORE, req[t].id)
            /\ deleted' = deleted \cup {req[t].id}
            /\ Return(t, 204, <<>>)
       ELSE /\ Return(t, 500, <<>>)
            /\ UNCHANGED <<_STORE, deleted>>
    /\ UNCHANGED <<_NEXT_ID, issued>>

delete_note(t) ==
    \/ DeleteCheck(t)
    \/ DeleteDel(t)

\* ------------------------------------------------------ specification
\* Requests arriving at worker t, with payloads drawn from `in`.
Requests(t, in) ==
    \/ PostNotes(t, in)
    \/ GetNotes(t, in)
    \/ GetNote(t, in)
    \/ PutNote(t, in)
    \/ PatchNote(t, in)
    \/ DeleteNote(t, in)

\* The next step of the handler worker t is running.
Handlers(t) ==
    \/ create_note(t)
    \/ list_notes(t)
    \/ get_note(t)
    \/ replace_note(t)
    \/ update_note(t)
    \/ delete_note(t)
    \/ Recycle(t)

\* One request at a time, served by one worker.
NextSeq ==
    \/ Tick
    \/ Requests(SeqWorker, SeqInputs)
    \/ Handlers(SeqWorker)

\* Requests served concurrently by the workers of the pool.
NextConc ==
    \/ Tick
    \/ \E t \in Threads : Requests(t, ConcInputs)
    \/ \E t \in Threads : Handlers(t)

\* The inputs of the scripted request s.
ScenarioInputs(s) ==
    [ids |-> {s.id},
     creates |-> IF s.op \in {"create", "replace"}
                 THEN {<<s.title[1], s.content[1]>>} ELSE {},
     updates |-> {<<s.title, s.content>>},
     counted |-> TRUE,
     limit |-> Len(Scenario)]

\* The next request of the script arrives.
ScenarioRequest(t) ==
    /\ served < Len(Scenario)
    /\ LET s == Scenario[served + 1] IN
        \/ s.op = "create" /\ PostNotes(t, ScenarioInputs(s))
        \/ s.op = "list" /\ GetNotes(t, ScenarioInputs(s))
        \/ s.op = "get" /\ GetNote(t, ScenarioInputs(s))
        \/ s.op = "replace" /\ PutNote(t, ScenarioInputs(s))
        \/ s.op = "update" /\ PatchNote(t, ScenarioInputs(s))
        \/ s.op = "delete" /\ DeleteNote(t, ScenarioInputs(s))

\* The script's requests served one at a time, in order, by one worker.
NextScenario ==
    \/ Tick
    \/ ScenarioRequest(SeqWorker)
    \/ Handlers(SeqWorker)

Spec == Init /\ [][NextSeq]_vars

SpecScenario == Init /\ [][NextScenario]_vars

SpecConc == Init /\ [][NextConc]_vars

\* ============================================================ claims
\* The note stored under key k (k a key of the store).
NoteAt(store, k) == DictGet(store, k)[1]

\* Worker t has answered a request `op` with `status`.
Answered(t, op, status) ==
    pc[t] = "done" /\ req[t].op = op /\ ret[t].status = status

\* The ids of the notes created and not deleted.
Live == {issued[i] : i \in 1..Len(issued)} \ deleted

\* C1: in a sequential execution every successful create returns an id
\* strictly greater than the id returned by every earlier create, so no id
\* is issued twice, also after the note that held it was deleted.
C1_IdsStrictlyIncrease ==
    \A i, j \in 1..Len(issued) : i < j => issued[i] < issued[j]

\* A create has returned its id after an earlier note was deleted.
C1_Witness ==
    /\ Answered(SeqWorker, "create", 201)
    /\ Len(issued) >= 2
    /\ ret[SeqWorker].body[1].id = issued[Len(issued)]
    /\ deleted # {}

\* C2: creates running concurrently never obtain the same id, and every
\* created note that was not deleted is resident in the store.
C2_ConcurrentCreatesDistinct ==
    /\ \A i, j \in 1..Len(issued) : i # j => issued[i] # issued[j]
    /\ \A id \in Live : HasKey(_STORE, id)

\* C3: once delete(id) has returned success, no note with that id is
\* resident in the store again, whatever update or replace was in flight.
C3_DeletedStaysDeleted ==
    \A id \in deleted : ~HasKey(_STORE, id)

\* C4: in a sequential execution, a get of an id whose delete succeeded
\* fails with NotFound, whatever was executed in between.
C4_GetAfterDelete ==
    [][\A t \in Threads :
          (get_note(t) /\ req[t].id \in deleted) => ret'[t].status = 404]_vars

\* A get of a deleted id was answered 404 while a note created later
\* is resident.
C4_Witness ==
    /\ Answered(SeqWorker, "get", 404)
    /\ req[SeqWorker].id \in deleted
    /\ \E i \in 1..Len(_STORE) : _STORE[i].key > req[SeqWorker].id

\* What list() returns in the current state.
Listed == SortedDesc(Values(_STORE))

\* C5: in every reachable state list() returns each note created and not
\* deleted exactly once and no other note, in descending updated_at order.
C5_ListExactlyLive ==
    /\ {Listed[i].id : i \in 1..Len(Listed)} = Live
    /\ \A i, j \in 1..Len(Listed) : i # j => Listed[i].id # Listed[j].id
    /\ \A i \in 1..(Len(Listed) - 1) :
          Listed[i].updated_at >= Listed[i + 1].updated_at

\* C6: in a sequential execution a successful update sets each supplied
\* field to the supplied value, keeps the prior value of each field that is
\* not supplied, and sets updated_at to the time the call read.
C6_UpdateMergesFields ==
    [][\A t \in Threads :
          UpdateStore(t) =>
              LET old == NoteAt(_STORE, req[t].id)
                  new == NoteAt(_STORE', req[t].id)
              IN  /\ new.title =
                        (IF req[t].title = <<>> THEN old.title ELSE req[t].title[1])
                  /\ new.content =
                        (IF req[t].content = <<>> THEN old.content
                         ELSE req[t].content[1])
                  /\ new.updated_at = loc[t].now
                  /\ ret'[t] = Response(200, <<new>>)]_vars

\* An update with no field supplied was answered: title and content are
\* those of creation and updated_at has advanced.
C6_Witness ==
    /\ Answered(SeqWorker, "update", 200)
    /\ req[SeqWorker].title = <<>>
    /\ req[SeqWorker].content = <<>>
    /\ ret[SeqWorker].body[1].title = "A"
    /\ ret[SeqWorker].body[1].content = "1"
    /\ ret[SeqWorker].body[1].updated_at > ret[SeqWorker].body[1].created_at

\* C7: in a sequential execution a successful replace leaves the note with
\* exactly the given title and content, the same id and created_at, and
\* changes no other note of the store.
C7_ReplaceOverwrites ==
    [][\A t \in Threads :
          ReplaceStore(t) =>
              LET old == NoteAt(_STORE, req[t].id)
                  new == NoteAt(_STORE', req[t].id)
              IN  /\ new.title = req[t].title[1]
                  /\ new.content = req[t].content[1]
                  /\ new.id = req[t].id
                  /\ new.created_at = old.created_at
                  /\ Keys(_STORE') = Keys(_STORE)
                  /\ Len(_STORE') = Len(_STORE)
                  /\ \A k \in Keys(_STORE) \ {req[t].id} :
                        NoteAt(_STORE', k) = NoteAt(_STORE, k)
                  /\ ret'[t] = Response(200, <<new>>)]_vars

\* A replace of one of two resident notes was answered, with a title and a
\* content that differ from the other note's and a later updated_at.
C7_Witness ==
    /\ Answered(SeqWorker, "replace", 200)
    /\ Len(_STORE) = 2
    /\ \E i \in 1..2 :
          /\ _STORE[i].key # req[SeqWorker].id
          /\ _STORE[i].value.title # req[SeqWorker].title[1]
          /\ _STORE[i].value.content # req[SeqWorker].content[1]
    /\ NoteAt(_STORE, req[SeqWorker].id) = ret[SeqWorker].body[1]
    /\ ret[SeqWorker].body[1].created_at < ret[SeqWorker].body[1].updated_at

\* The store writes of replace and update.
Rewrite(t) == ReplaceStore(t) \/ UpdateStore(t)

\* C8 as stated: after a successful replace or update created_at is
\* unchanged and updated_at is strictly greater than before the call.
C8_UpdatedAtStrictlyIncreases ==
    [][\A t \in Threads :
          Rewrite(t) =>
              LET old == NoteAt(_STORE, req[t].id)
                  new == NoteAt(_STORE', req[t].id)
              IN  /\ new.created_at = old.created_at
                  /\ new.updated_at > old.updated_at]_vars

\* C8 as amended: created_at is unchanged and updated_at is not less than
\* before the call; it is strictly greater exactly when the clock reading
\* of the call is later than the note's previous updated_at.
C8_UpdatedAtAdvancesWithClock ==
    [][\A t \in Threads :
          Rewrite(t) =>
              LET old == NoteAt(_STORE, req[t].id)
                  new == NoteAt(_STORE', req[t].id)
              IN  /\ new.created_at = old.created_at
                  /\ new.updated_at >= old.updated_at
                  /\ new.updated_at > old.updated_at
                        <=> loc[t].now > old.updated_at]_vars

\* A replace or an update was answered in the clock tick of the note's
\* creation: updated_at has not increased.
C8_Witness ==
    /\ \/ Answered(SeqWorker, "replace", 200)
       \/ Answered(SeqWorker, "update", 200)
    /\ clock = MaxClock
    /\ ret[SeqWorker].body[1].created_at = clock
    /\ ret[SeqWorker].body[1].updated_at = clock

\* C9: the note create returns, and the note stored under its id by the
\* same step, have created_at equal to updated_at.
C9_CreateStampsEqual ==
    [][\A t \in Threads :
          CreateStore(t) =>
              /\ ret'[t].status = 201
              /\ ret'[t].body[1].created_at = ret'[t].body[1].updated_at
              /\ NoteAt(_STORE', ret'[t].body[1].id) = ret'[t].body[1]]_vars

\* A create was answered after the clock had advanced.
C9_Witness ==
    /\ Answered(SeqWorker, "create", 201)
    /\ ret[SeqWorker].body[1].created_at = MaxClock
    /\ ret[SeqWorker].body[1].updated_at = MaxClock
    /\ NoteAt(_STORE, ret[SeqWorker].body[1].id) = ret[SeqWorker].body[1]

\* C10: in every reachable state every note resident in the store has
\* updated_at >= created_at.
C10_UpdatedNotBeforeCreated ==
    \A i \in 1..Len(_STORE) :
        _STORE[i].value.updated_at >= _STORE[i].value.created_at

\* A resident note was rewritten after the clock advanced, by a worker
\* that ran while the other one was serving a request.
C10_Witness ==
    /\ \E i \in 1..Len(_STORE) :
          _STORE[i].value.updated_at > _STORE[i].value.created_at
    /\ \E t \in Threads :
          /\ Answered(t, "update", 200) \/ Answered(t, "replace", 200)
          /\ \E u \in Threads \ {t} : pc[u] \notin {"idle", "done"}

\* The operations that fail with NotFound besides get.
Mutators == {"replace", "update", "delete"}

\* C11: a replace, update or delete that fails with NotFound leaves the
\* mapping and the next-id counter as they were: neither the step that takes
\* the request nor the step that raises the 404 changes them.
C11_NotFoundChangesNothing ==
    [][\A t \in Threads :
          (/\ req'[t].op \in Mutators
           /\ pc[t] = "idle" \/ ret'[t].status = 404)
          => (_STORE' = _STORE /\ _NEXT_ID' = _NEXT_ID)]_vars

\* A replace of an id that is not resident was answered 404 while another
\* note is resident.
C11_Witness ==
    /\ Answered(SeqWorker, "replace", 404)
    /\ ~HasKey(_STORE, req[SeqWorker].id)
    /\ _STORE # <<>>
    /\ _NEXT_ID = Len(issued) + 1

\* C12: get, replace, update and delete answer 404 exactly when the id is
\* not a key of the store at the handler's lookup, and succeed otherwise
\* (200, or 204 for delete), for every id.
C12_NotFoundIffAbsent ==
    [][\A t \in Threads :
          LET absent == ~HasKey(_STORE, req[t].id) IN
          /\ get_note(t) => ret'[t].status = (IF absent THEN 404 ELSE 200)
          /\ (ReplaceGet(t) \/ UpdateGet(t) \/ DeleteCheck(t)) =>
                IF absent THEN pc'[t] = "done" /\ ret'[t].status = 404
                ELSE pc'[t] # "done"
          /\ (ReplaceStore(t) \/ UpdateStore(t)) => ret'[t].status = 200
          /\ DeleteDel(t) => ret'[t].status = 204]_vars

\* A delete of an id already deleted was answered 404.
C12_Witness ==
    /\ Answered(SeqWorker, "delete", 404)
    /\ req[SeqWorker].id \in deleted
    /\ _STORE # <<>>

\* C13: in every reachable state every note resident in the store has a
\* title of 1 to 200 characters, whatever create, replace and update
\* requests were made (empty and over-long titles included).
C13_TitleLengthBounded ==
    \A i \in 1..Len(_STORE) :
        Len(_STORE[i].value.title) >= 1 /\ Len(_STORE[i].value.title) <= 200

\* An update that supplied only content was answered for a note whose
\* title has 200 characters.
C13_Witness ==
    /\ Answered(SeqWorker, "update", 200)
    /\ req[SeqWorker].title = <<>>
    /\ req[SeqWorker].content # <<>>
    /\ Len(NoteAt(_STORE, req[SeqWorker].id).title) = 200

\* C14: a create whose title is empty or longer than 200 characters is
\* answered 422 by the step that takes the request, with the mapping and
\* the next-id counter unchanged.
C14_InvalidCreateRejected ==
    [][\A t \in Threads :
          (/\ pc[t] = "idle"
           /\ req'[t].op = "create"
           /\ Len(req'[t].title[1]) = 0 \/ Len(req'[t].title[1]) > 200)
          => /\ pc'[t] = "done"
             /\ ret'[t] = Response(422, <<>>)
             /\ _STORE' = _STORE
             /\ _NEXT_ID' = _NEXT_ID
             /\ issued' = issued]_vars

\* A create with an empty title was answered 422 after one note had been
\* created: the counter still names the second id.
C14_Witness ==
    /\ Answered(SeqWorker, "create", 422)
    /\ req[SeqWorker].title = <<"">>
    /\ issued = <<1>>
    /\ _NEXT_ID = 2

\* C15: the next-id counter starts at 1; the only steps that change it are
\* the increment of a create, which adds exactly 1; every other step of
\* every operation (get, list, replace, update, delete, answered with
\* success or failure) leaves it alone; and when the k-th successful
\* create of a sequential execution returns, it returns id k and the
\* counter is k + 1.
C15_CounterCountsCreates ==
    /\ _NEXT_ID = 1
    /\ [][/\ _NEXT_ID' # _NEXT_ID =>
                /\ _NEXT_ID' = _NEXT_ID + 1
                /\ \E t \in Threads :
                      /\ req[t].op = "create"
                      /\ pc[t] = "alloc_store"
                      /\ pc'[t] # pc[t]
          /\ \A t \in Threads :
                (req[t].op # "create" /\ pc'[t] # pc[t] /\ pc[t] # "idle")
                => _NEXT_ID' = _NEXT_ID
          /\ \A t \in Threads :
                (pc[t] = "create_store" /\ pc'[t] = "done")
                => /\ ret'[t].status = 201
                   /\ ret'[t].body[1].id = Len(issued')
                   /\ _NEXT_ID' = Len(issued') + 1]_vars

\* The second successful create returned id 2 after note 1 had been
\* deleted: the id was not reused and the counter is 3.
C15_Witness ==
    /\ Answered(SeqWorker, "create", 201)
    /\ ret[SeqWorker].body[1].id = 2
    /\ deleted = {1}
    /\ _NEXT_ID = 3

\* The ids of a sequence of notes, in order.
Ids(notes) == [i \in 1..Len(notes) |-> notes[i].id]

\* What the script expects of the answer r to its k-th request, the first
\* list() apart; s is the store before the step that answers.
ScenarioAnswer(k, r, s) ==
    CASE k = 1 -> /\ r.status = 201
                  /\ r.body[1].id = 1
                  /\ r.body[1].title = "A" /\ r.body[1].content = "1"
      [] k = 2 -> /\ r.status = 201
                  /\ r.body[1].id = 2
                  /\ r.body[1].title = "B" /\ r.body[1].content = "2"
      [] k = 3 -> r.status = 200
      [] k = 4 -> r.status = 204
      [] k = 5 -> r.status = 404
      [] k = 6 -> /\ r.status = 200
                  /\ r.body[1].id = 2
                  /\ r.body[1].title = "B2" /\ r.body[1].content = "2"
                  /\ r.body[1].created_at = NoteAt(s, 2).created_at
      [] k = 7 -> /\ r.status = 200
                  /\ r.body[1].id = 2
                  /\ r.body[1].title = "C" /\ r.body[1].content = "3"
                  /\ r.body[1].created_at = NoteAt(s, 2).created_at
      [] k = 8 -> r.status = 204
      [] k = 9 -> r.status = 200 /\ r.body = <<>>
      [] OTHER -> FALSE

\* The script's expectations of every answering step, with `first` the
\* expectation of the first list(); the created_at a note got at creation
\* is the one it keeps as long as it is resident.
ScenarioHolds(first(_)) ==
    /\ (pc[SeqWorker] # "done" /\ pc'[SeqWorker] = "done")
       => /\ ScenarioAnswer(served', ret'[SeqWorker], _STORE)
          /\ served' = 3 => first(ret'[SeqWorker].body)
    /\ \A k \in Keys(_STORE) :
          HasKey(_STORE', k)
          => NoteAt(_STORE', k).created_at = NoteAt(_STORE, k).created_at
    /\ \A t \in Threads :
          (pc[t] = "create_store" /\ pc'[t] = "done")
          => NoteAt(_STORE', ret'[t].body[1].id) = ret'[t].body[1]

NewestFirst(body) == Ids(body) = <<2, 1>>

NewestFirstWhenLater(body) ==
    Ids(body) = IF NoteAt(_STORE, 2).updated_at > NoteAt(_STORE, 1).updated_at
                THEN <<2, 1>>
                ELSE <<1, 2>>

\* C16 as stated: from the empty store, create("A","1") returns id 1;
\* create("B","2") returns id 2; list() returns [note 2, note 1];
\* delete(1) succeeds and get(1) is answered 404; update(2, title="B2")
\* yields title "B2", content "2", id 2; replace(2,"C","3") yields title
\* "C", content "3" and the created_at of creation; delete(2) succeeds and
\* list() returns the empty sequence.
C16_ScenarioNewestFirst == [][ScenarioHolds(NewestFirst)]_vars

\* C16, amended: the same script, where the first list() returns
\* [note 2, note 1] when note 2 was created at a later clock reading than
\* note 1, and [note 1, note 2] when both were created at the same reading.
C16_ScenarioHolds == [][ScenarioHolds(NewestFirstWhenLater)]_vars

\* The script ran to its end: the last list() was answered with the empty
\* sequence after both notes were created and deleted.
C16_Witness ==
    /\ served = Len(Scenario)
    /\ Answered(SeqWorker, "list", 200)
    /\ ret[SeqWorker].body = <<>>
    /\ issued = <<1, 2>>
    /\ deleted = {1, 2}
    /\ _STORE = <<>>

\* C17: when two update requests on the same existing note run
\* concurrently, one supplying only title and the other only content, and
\* both are answered 200, the note carries the new title and the new
\* content (three requests were made in all: the create and the two
\* updates, so nothing else wrote the note).
C17_ConcurrentUpdatesBothKept ==
    \A a, b \in Threads :
        (/\ served = 3
         /\ Answered(a, "update", 200) /\ Answered(b, "update", 200)
         /\ req[a].id = req[b].id
         /\ req[a].title # <<>> /\ req[a].content = <<>>
         /\ req[b].title = <<>> /\ req[b].content # <<>>)
        => /\ HasKey(_STORE, req[a].id)
           /\ NoteAt(_STORE, req[a].id).title = req[a].title[1]
           /\ NoteAt(_STORE, req[a].id).content = req[b].content[1]

\* C18: get and list are read-only: every step of a get or list request,
\* from its arrival to its answer (200 or 404), leaves the mapping and the
\* next-id counter unchanged.
C18_ReadsChangeNothing ==
    [][\A t \in Threads :
          (req'[t].op \in {"get", "list"} /\ pc'[t] # pc[t])
          => (_STORE' = _STORE /\ _NEXT_ID' = _NEXT_ID)]_vars

\* A get was answered 200 with the note that is still resident, one of two.
C18_Witness ==
    /\ Answered(SeqWorker, "get", 200)
    /\ HasKey(_STORE, req[SeqWorker].id)
    /\ ret[SeqWorker].body[1] = NoteAt(_STORE, req[SeqWorker].id)
    /\ Len(_STORE) = 2
    /\ _NEXT_ID = 3

\* C19: in every state reachable by sequentially executed operations each
\* key k of the store maps to a note whose id is k, and every key lies in
\* 1..next_id-1.
C19_KeysAreIds ==
    \A i \in 1..Len(_STORE) :
        /\ _STORE[i].value.id = _STORE[i].key
        /\ _STORE[i].key >= 1
        /\ _STORE[i].key <= _NEXT_ID - 1

\* Note 2 was rewritten by an update while note 1 is gone: key 2 still
\* holds the note of id 2, below the counter.
C19_Witness ==
    /\ Answered(SeqWorker, "update", 200)
    /\ req[SeqWorker].id = 2
    /\ Keys(_STORE) = {2}
    /\ deleted = {1}
    /\ _NEXT_ID = 3

\* C20: in a sequential execution the answer of list() holds exactly the
\* resident notes, later updated_at first and, among notes of identical
\* updated_at, ascending id; the store's insertion order is ascending id
\* and replace and update leave it as it is.  The answer is so determined
\* by the store: two calls with no mutation in between agree.
C20_TiesInIdOrder ==
    [][/\ \A t \in Threads :
             (pc[t] = "list" /\ pc'[t] = "done")
             => LET body == ret'[t].body IN
                /\ Len(body) = Len(_STORE)
                /\ \A i \in 1..Len(_STORE) :
                      \E j \in 1..Len(body) : body[j] = _STORE[i].value
                /\ \A i, j \in 1..Len(body) :
                      i < j =>
                         \/ body[i].updated_at > body[j].updated_at
                         \/ /\ body[i].updated_at = body[j].updated_at
                            /\ body[i].id < body[j].id
       /\ \A i, j \in 1..Len(_STORE') :
             i < j => _STORE'[i].key < _STORE'[j].key
       /\ \A t \in Threads :
             (pc[t] \in {"replace_store", "update_store"} /\ pc'[t] = "done")
             => [i \in 1..Len(_STORE') |-> _STORE'[i].key]
                   = [i \in 1..Len(_STORE) |-> _STORE[i].key]]_vars

\* list() answered two notes of identical updated_at, note 1 first although
\* it was rewritten after its creation.
C20_Witness ==
    /\ Answered(SeqWorker, "list", 200)
    /\ Len(ret[SeqWorker].body) = 2
    /\ ret[SeqWorker].body[1].id = 1
    /\ ret[SeqWorker].body[2].id = 2
    /\ ret[SeqWorker].body[1].updated_at = ret[SeqWorker].body[2].updated_at
    /\ ret[SeqWorker].body[1].created_at < ret[SeqWorker].body[1].updated_at
====
